---- MODULE Spec2Model ----
(***************************************************************************)
(* A model of nova/virt/libvirt/guest.py: the Guest wrapper around one     *)
(* libvirt domain handle and its BlockDevice view.                         *)
(*                                                                         *)
(* The libvirt domain handle, host.write_instance_config and utils.execute *)
(* are collaborators: the outcome of each call on them is an input of the  *)
(* operation that makes the call.  Every operation records the calls it    *)
(* made, in order, what it logged and how it ended.                        *)
(***************************************************************************)
EXTENDS Integers, Sequences, FiniteSets, TLC

VARIABLES
    last,       \* the record of the most recent operation on the guest
    defined,    \* whether the domain is defined on the hypervisor
    libvirt,    \* the module-level global `libvirt` (guest.py line 40)
    assigns,    \* how many times the global has been assigned
    tpc,        \* per thread: position inside Guest.__init__
    tmp,        \* per thread: the value import_module returned
    sawNone     \* per thread: a method read a flag constant from a None global

vars == <<last, defined, libvirt, assigns, tpc, tmp, sawNone>>
guestVars == <<last, defined>>
initVars == <<libvirt, assigns, tpc, tmp, sawNone>>

---------------------------------------------------------------------------
(* Bounds of the model *)

MaxDevices == 2
MaxProgress == 2
NThreads == 3

(* libvirt's flag constants, as the code names them *)

VIR_DOMAIN_START_PAUSED == 1
VIR_DOMAIN_UNDEFINE_MANAGED_SAVE == 1
VIR_DOMAIN_AFFECT_LIVE == 1
VIR_DOMAIN_AFFECT_CONFIG == 2
VIR_DOMAIN_BLOCK_JOB_ABORT_ASYNC == 1
VIR_DOMAIN_BLOCK_JOB_ABORT_PIVOT == 2
VIR_DOMAIN_BLOCK_REBASE_SHALLOW == 1
VIR_DOMAIN_BLOCK_REBASE_REUSE_EXT == 2
VIR_DOMAIN_BLOCK_REBASE_COPY == 8
VIR_DOMAIN_BLOCK_REBASE_RELATIVE == 16
VIR_DOMAIN_BLOCK_COMMIT_RELATIVE == 8
REBASE_DEFAULT_BANDWIDTH == 0
COMMIT_DEFAULT_BANDWIDTH == 0

---------------------------------------------------------------------------
(* Values *)

None == "None"
Module == "libvirt_module"

\* Outcomes of a call on a collaborator: success, a domain-level error, or a
\* missing capability (the method does not exist on this libvirt).
OK == "ok"
LibvirtError == "libvirtError"
AttributeError == "AttributeError"
Outcomes == {OK, LibvirtError, AttributeError}
Failures == {LibvirtError, AttributeError}

NoArgs == [nargs |-> 0]
Call(m, a, o) == [m |-> m, args |-> a, out |-> o]
Err(type, from) == [type |-> type, from |-> from]
Return(v) == [kind |-> "return", value |-> v, err |-> Err(None, None)]
Raise(e) == [kind |-> "raise", value |-> None, err |-> e]
Log(level, msg, payload) == [level |-> level, msg |-> msg, payload |-> payload]

\* What one invocation did: the calls on the domain handle, the calls on the
\* other collaborators (host, utils.execute), the log lines, the outcome.
Done(op, args, calls, ext, logs, result) ==
    [op |-> op, args |-> args, calls |-> calls, ext |-> ext, logs |-> logs,
     result |-> result]

Idle == Done("none", NoArgs, <<>>, <<>>, <<>>, Return(None))

\* No operation is in progress or waiting for its caller.
Ready == last.op = "none"

\* Python's `a | b` on non-negative integers.
RECURSIVE BitOr(_, _)
BitOr(a, b) ==
    IF a = 0 THEN b
    ELSE IF b = 0 THEN a
    ELSE (IF a % 2 = 1 \/ b % 2 = 1 THEN 1 ELSE 0) + 2 * BitOr(a \div 2, b \div 2)

\* Whether bit `c` (a power of two) is set in `f`.
HasBit(f, c) == (f \div c) % 2 = 1

\* Python's `cond and const or 0`: const when cond is true and const is
\* truthy, otherwise 0.
AndOr(cond, const) == IF cond /\ const # 0 THEN const ELSE 0

---------------------------------------------------------------------------
(* Guest.delete_configuration *)

DeleteInputs ==
    [uf : Outcomes, id : Outcomes, hm : {"true", "false"} \cup Failures,
     msr : Outcomes, ud : Outcomes]

c_undefineFlags(d) ==
    Call("undefineFlags", [flags |-> VIR_DOMAIN_UNDEFINE_MANAGED_SAVE], d.uf)
c_ID(d) == Call("ID", NoArgs, d.id)
c_hasManagedSaveImage(d) == Call("hasManagedSaveImage", [flags |-> 0], d.hm)
c_managedSaveRemove(d) == Call("managedSaveRemove", [flags |-> 0], d.msr)
c_undefine(d) == Call("undefine", NoArgs, d.ud)

\* An outcome of a step: the calls made, the log lines, and the exception
\* leaving the step (Err(None, None) when none does).
Step(calls, logs, exc) == [calls |-> calls, logs |-> logs, exc |-> exc]
NoExc == Err(None, None)

\* self._domain.undefine(), the last statement of both except branches.
PlainUndefine(d) ==
    Step(<<c_undefine(d)>>, <<>>,
         IF d.ud = OK THEN NoExc ELSE Err(d.ud, "undefine"))

\* s, then t unless an exception left s.
Then(s, t) ==
    IF s.exc # NoExc THEN s
    ELSE Step(s.calls \o t.calls, s.logs \o t.logs, t.exc)

\* A variant of DC_Success that goes on to plain undefine after success.
DC_Success_ThenUndefine(d) == PlainUndefine(d)

\* The try body: undefineFlags(VIR_DOMAIN_UNDEFINE_MANAGED_SAVE) returned.
DC_Success(d) == Step(<<>>, <<>>, NoExc)

\* A variant of DC_Fallback that logs and raises the error of undefineFlags
\* again instead of calling undefine.
DC_Fallback_Reraise(d) ==
    Step(<<c_ID(d)>>, <<Log("debug", "Error from libvirt during undefineFlags", "id")>>,
         Err(LibvirtError, "undefineFlags"))

\* except libvirt.libvirtError: LOG.debug(..., self.id), then undefine().
\* self.id is evaluated (a call of ID() on the domain) to build the log call.
DC_Fallback(d) ==
    Then(Step(<<c_ID(d)>>,
              IF d.id = OK
                  THEN <<Log("debug", "Error from libvirt during undefineFlags", "id")>>
                  ELSE <<>>,
              IF d.id = OK THEN NoExc ELSE Err(d.id, "ID")),
         PlainUndefine(d))

\* A variant of ManagedSaveStep whose handler is missing: an AttributeError
\* of hasManagedSaveImage or managedSaveRemove leaves the step.
ManagedSaveStep_NoHandler(d) ==
    CASE d.hm = "true" ->
            Step(<<c_hasManagedSaveImage(d), c_managedSaveRemove(d)>>, <<>>,
                 IF d.msr # OK THEN Err(d.msr, "managedSaveRemove") ELSE NoExc)
      [] d.hm = "false" -> Step(<<c_hasManagedSaveImage(d)>>, <<>>, NoExc)
      [] OTHER ->
            Step(<<c_hasManagedSaveImage(d)>>, <<>>, Err(d.hm, "hasManagedSaveImage"))

\* The inner try: if hasManagedSaveImage(0): managedSaveRemove(0), with
\* except AttributeError: pass.
ManagedSaveStep(d) ==
    CASE d.hm = "true" ->
            Step(<<c_hasManagedSaveImage(d), c_managedSaveRemove(d)>>, <<>>,
                 IF d.msr = LibvirtError
                     THEN Err(LibvirtError, "managedSaveRemove") ELSE NoExc)
      [] d.hm = "false" -> Step(<<c_hasManagedSaveImage(d)>>, <<>>, NoExc)
      [] d.hm = AttributeError -> Step(<<c_hasManagedSaveImage(d)>>, <<>>, NoExc)
      [] OTHER ->
            Step(<<c_hasManagedSaveImage(d)>>, <<>>,
                 Err(LibvirtError, "hasManagedSaveImage"))

\* except AttributeError: the managed-save step, then undefine().
DC_Legacy(d) == Then(ManagedSaveStep(d), PlainUndefine(d))

delete_configuration_run(d) ==
    LET first == Step(<<c_undefineFlags(d)>>, <<>>, NoExc)
        s == CASE d.uf = OK -> Then(first, DC_Success(d))
               [] d.uf = LibvirtError -> Then(first, DC_Fallback(d))
               [] OTHER -> Then(first, DC_Legacy(d))
    IN  Done("delete_configuration", d, s.calls, <<>>, s.logs,
             IF s.exc = NoExc THEN Return(None) ELSE Raise(s.exc))

\* The domain is undefined by a successful undefineFlags or undefine.
Undefines(r) ==
    \E i \in 1..Len(r.calls) :
        r.calls[i].m \in {"undefineFlags", "undefine"} /\ r.calls[i].out = OK

delete_configuration ==
    /\ Ready
    /\ defined
    /\ \E d \in DeleteInputs :
        /\ last' = delete_configuration_run(d)
        /\ defined' = ~Undefines(delete_configuration_run(d))
    /\ UNCHANGED initVars

---------------------------------------------------------------------------
(* The guest's XML description *)

\* A <target> element: its dev attribute, or None when it has none.
Targets == {<<>>, <<[dev |-> "vnet0"]>>, <<[dev |-> "vnet1"]>>, <<[dev |-> None]>>}

\* The children of <devices>: interfaces with at most one target, and a disk.
Elems ==
    [tag : {"interface"}, targets : Targets]
        \cup {[tag |-> "disk", targets |-> <<[dev |-> "vda"]>>]}

Docs == UNION {[1..n -> Elems] : n \in 0..MaxDevices}

Malformed == [wellformed |-> FALSE, devices |-> <<>>]

\* The text XMLDesc returns: a well-formed document or one lxml rejects.
XmlTexts == {[wellformed |-> TRUE, devices |-> ds] : ds \in Docs} \cup {Malformed}

\* What a call of XMLDesc(0) does: returns a text or raises.
XmlOutcomes ==
    {[out |-> OK, text |-> t] : t \in XmlTexts}
        \cup {[out |-> LibvirtError, text |-> Malformed]}

c_XMLDesc(xo) == Call("XMLDesc", [flags |-> 0], xo.out)

\* doc.findall('./devices/interface/target'), in document order.
RECURSIVE FindInterfaceTargets(_)
FindInterfaceTargets(devs) ==
    IF devs = <<>> THEN <<>>
    ELSE (IF Head(devs).tag = "interface" THEN Head(devs).targets ELSE <<>>)
             \o FindInterfaceTargets(Tail(devs))

\* The for loop: target.get('dev') of every node.
DevNames(nodes) == [i \in 1..Len(nodes) |-> nodes[i].dev]

\* The value get_interfaces returns: [] when XMLDesc or etree.fromstring
\* raised, the dev attributes otherwise.
get_interfaces_value(xo) ==
    IF xo.out # OK \/ ~xo.text.wellformed THEN <<>>
    ELSE DevNames(FindInterfaceTargets(xo.text.devices))

\* A variant of get_interfaces_result without the try: a failure of XMLDesc
\* or of the parser reaches the caller.
get_interfaces_result_NoTry(xo) ==
    IF xo.out # OK THEN Raise(Err(xo.out, "XMLDesc"))
    ELSE IF ~xo.text.wellformed THEN Raise(Err("XMLSyntaxError", "fromstring"))
    ELSE Return(get_interfaces_value(xo))

\* How get_interfaces ends: it returns its value.
get_interfaces_result(xo) == Return(get_interfaces_value(xo))

get_interfaces_run(xo) ==
    Done("get_interfaces", [xo |-> xo], <<c_XMLDesc(xo)>>, <<>>, <<>>,
         get_interfaces_result(xo))

get_interfaces ==
    /\ Ready
    /\ \E xo \in XmlOutcomes : last' = get_interfaces_run(xo)
    /\ UNCHANGED <<defined>>
    /\ UNCHANGED initVars

---------------------------------------------------------------------------
(* excutils.save_and_reraise_exception around a LOG.error call *)

\* `with save_and_reraise_exception(): LOG.error(msg % payload)`: when
\* computing the payload raises, that exception leaves the block and the
\* original one is dropped (and logged); otherwise the message is logged and
\* the original exception is raised again.
SaveAndReraise(original, msg, payload) ==
    IF payload.out = OK
        THEN Step(<<>>, <<Log("error", msg, payload.text)>>, original)
        ELSE Step(<<>>, <<Log("error", "Original exception being dropped", Malformed)>>,
                  Err(payload.out, "XMLDesc"))

\* The same with self._encoded_xml as the payload: a call of XMLDesc(0).
LogEncodedXml(original, msg, xo) ==
    LET s == SaveAndReraise(original, msg, xo)
    IN  Step(<<c_XMLDesc(xo)>>, s.logs, s.exc)

---------------------------------------------------------------------------
(* Guest.create, launch, poweroff, resume, save_memory_state *)

ConfigDocs == {t \in XmlTexts : t.devices = <<>>}

\* The log payload of create is its xml argument (safe_decode of a text
\* returns it), so building it makes no call on a collaborator.
create_run(xml, out) ==
    LET c == Call("write_instance_config", [xml |-> xml], out)
        s == SaveAndReraise(Err(out, "write_instance_config"),
                            "Error defining a domain with XML",
                            [out |-> OK, text |-> xml])
    IN  IF out = OK
            THEN Done("create", [xml |-> xml], <<>>, <<c>>, <<>>, Return("Guest"))
            ELSE Done("create", [xml |-> xml], <<>>, <<c>>, s.logs, Raise(s.exc))

create ==
    /\ Ready
    /\ \E xml \in ConfigDocs, out \in Outcomes :
        /\ last' = create_run(xml, out)
        /\ defined' = IF out = OK THEN TRUE ELSE defined
    /\ UNCHANGED initVars

LaunchFlags(pause) == AndOr(pause, VIR_DOMAIN_START_PAUSED)

\* except Exception: log the XML and re-raise.
LaunchFailure(out, xo) ==
    LogEncodedXml(Err(out, "createWithFlags"),
                  "Error launching a defined domain with XML", xo)

launch_run(pause, out, xo) ==
    LET c == Call("createWithFlags", [flags |-> LaunchFlags(pause)], out)
        a == [pause |-> pause, out |-> out, xo |-> xo]
        f == LaunchFailure(out, xo)
    IN  IF out = OK
            THEN Done("launch", a, <<c>>, <<>>, <<>>, Return("createWithFlags"))
            ELSE Done("launch", a, <<c>> \o f.calls, <<>>, f.logs, Raise(f.exc))

launch ==
    /\ Ready
    /\ \E pause \in BOOLEAN, out \in Outcomes, xo \in XmlOutcomes :
        last' = launch_run(pause, out, xo)
    /\ UNCHANGED <<defined>>
    /\ UNCHANGED initVars

\* An operation that is one call on the domain handle and nothing else.
SingleCall(op, a, m, margs, out, value) ==
    Done(op, a, <<Call(m, margs, out)>>, <<>>, <<>>,
         IF out = OK THEN Return(value) ELSE Raise(Err(out, m)))

\* A variant of poweroff that calls destroy again after a failure.
poweroff_run_Retry(out) ==
    IF out = OK
        THEN SingleCall("poweroff", [out |-> out], "destroy", NoArgs, out, None)
        ELSE Done("poweroff", [out |-> out],
                  <<Call("destroy", NoArgs, out), Call("destroy", NoArgs, out)>>,
                  <<>>, <<>>, Raise(Err(out, "destroy")))

poweroff_run(out) == SingleCall("poweroff", [out |-> out], "destroy", NoArgs, out, None)

poweroff ==
    /\ Ready
    /\ \E out \in Outcomes : last' = poweroff_run(out)
    /\ UNCHANGED <<defined>>
    /\ UNCHANGED initVars

resume_run(out) == SingleCall("resume", [out |-> out], "resume", NoArgs, out, None)

resume ==
    /\ Ready
    /\ \E out \in Outcomes : last' = resume_run(out)
    /\ UNCHANGED <<defined>>
    /\ UNCHANGED initVars

save_memory_state_run(out) ==
    SingleCall("save_memory_state", [out |-> out], "managedSave", [flags |-> 0], out, None)

save_memory_state ==
    /\ Ready
    /\ \E out \in Outcomes : last' = save_memory_state_run(out)
    /\ UNCHANGED <<defined>>
    /\ UNCHANGED initVars

---------------------------------------------------------------------------
(* Guest.enable_hairpin *)

ExitCodes == {0, 1, 2}
check_exit_code == {0, 1}

HairpinPath(interface) == <<"/sys/class/net", interface, "brport/hairpin_mode">>

c_execute(interface, code) ==
    Call("execute",
         [cmd |-> "tee", path |-> HairpinPath(interface), process_input |-> "1",
          run_as_root |-> TRUE],
         code)

\* The index of the first write utils.execute rejects, 0 when none fails.
FirstFailure(exits) ==
    IF \E i \in 1..Len(exits) : exits[i] \notin check_exit_code
        THEN CHOOSE i \in 1..Len(exits) :
                /\ exits[i] \notin check_exit_code
                /\ \A j \in 1..(i - 1) : exits[j] \in check_exit_code
        ELSE 0

\* The for loop: one write per interface, stopped by the first failure.
HairpinWrites(interfaces, exits) ==
    LET k == FirstFailure(exits)
        n == IF k = 0 THEN Len(interfaces) ELSE k
    IN  [i \in 1..n |-> c_execute(interfaces[i], exits[i])]

enable_hairpin_run(xo, exits, xo2) ==
    LET interfaces == get_interfaces_value(xo)
        a == [xo |-> xo, exits |-> exits, xo2 |-> xo2]
        f == LogEncodedXml(Err("ProcessExecutionError", "execute"),
                           "Error enabling hairpin mode with XML", xo2)
    IN  IF FirstFailure(exits) = 0
            THEN Done("enable_hairpin", a, <<c_XMLDesc(xo)>>,
                      HairpinWrites(interfaces, exits), <<>>, Return(None))
            ELSE Done("enable_hairpin", a, <<c_XMLDesc(xo)>> \o f.calls,
                      HairpinWrites(interfaces, exits), f.logs, Raise(f.exc))

\* The second XMLDesc(0), made to log, returns the same text or raises.
enable_hairpin ==
    /\ Ready
    /\ \E xo \in XmlOutcomes :
        \E exits \in [1..Len(get_interfaces_value(xo)) -> ExitCodes] :
            \E xo2 \in {xo, [out |-> LibvirtError, text |-> Malformed]} :
                last' = enable_hairpin_run(xo, exits, xo2)
    /\ UNCHANGED <<defined>>
    /\ UNCHANGED initVars

---------------------------------------------------------------------------
(* Guest.attach_device, detach_device *)

Confs ==
    {[root |-> "disk", target_dev |-> "vdb"],
     [root |-> "interface", target_dev |-> "vnet1"]}

\* conf.to_xml(): the device's serialized configuration.
to_xml(conf) ==
    [wellformed |-> TRUE,
     devices |-> <<[tag |-> conf.root, targets |-> <<[dev |-> conf.target_dev]>>]>>]

AttachFlags(persistent, live) ==
    BitOr(AndOr(persistent, VIR_DOMAIN_AFFECT_CONFIG),
          AndOr(live, VIR_DOMAIN_AFFECT_LIVE))

attach_device_run(conf, persistent, live, out) ==
    SingleCall("attach_device",
               [conf |-> conf, persistent |-> persistent, live |-> live, out |-> out],
               "attachDeviceFlags",
               [xml |-> to_xml(conf), flags |-> AttachFlags(persistent, live)],
               out, None)

attach_device ==
    /\ Ready
    /\ \E conf \in Confs, persistent \in BOOLEAN, live \in BOOLEAN, out \in Outcomes :
        last' = attach_device_run(conf, persistent, live, out)
    /\ UNCHANGED <<defined>>
    /\ UNCHANGED initVars

\* A variant of DetachFlags with the two constants exchanged.
DetachFlags_Swapped(persistent, live) ==
    BitOr(AndOr(persistent, VIR_DOMAIN_AFFECT_LIVE),
          AndOr(live, VIR_DOMAIN_AFFECT_CONFIG))

DetachFlags(persistent, live) ==
    BitOr(AndOr(persistent, VIR_DOMAIN_AFFECT_CONFIG),
          AndOr(live, VIR_DOMAIN_AFFECT_LIVE))

detach_device_run(conf, persistent, live, out) ==
    SingleCall("detach_device",
               [conf |-> conf, persistent |-> persistent, live |-> live, out |-> out],
               "detachDeviceFlags",
               [xml |-> to_xml(conf), flags |-> DetachFlags(persistent, live)],
               out, None)

detach_device ==
    /\ Ready
    /\ \E conf \in Confs, persistent \in BOOLEAN, live \in BOOLEAN, out \in Outcomes :
        last' = detach_device_run(conf, persistent, live, out)
    /\ UNCHANGED <<defined>>
    /\ UNCHANGED initVars

---------------------------------------------------------------------------
(* BlockDevice *)

Disks == {"vda", "vdb"}
Bases == {"base.img", None}
Tops == {"top.img"}
Sizes == {1024, 2048}

AbortFlags(async, pivot) ==
    BitOr(AndOr(async, VIR_DOMAIN_BLOCK_JOB_ABORT_ASYNC),
          AndOr(pivot, VIR_DOMAIN_BLOCK_JOB_ABORT_PIVOT))

abort_job_run(disk, async, pivot, out) ==
    SingleCall("abort_job",
               [disk |-> disk, async |-> async, pivot |-> pivot, out |-> out],
               "blockJobAbort", [disk |-> disk, flags |-> AbortFlags(async, pivot)],
               out, None)

abort_job ==
    /\ Ready
    /\ \E disk \in Disks, async \in BOOLEAN, pivot \in BOOLEAN, out \in Outcomes :
        last' = abort_job_run(disk, async, pivot, out)
    /\ UNCHANGED <<defined>>
    /\ UNCHANGED initVars

RebaseFlags(shallow, reuse_ext, copy, relative) ==
    BitOr(BitOr(BitOr(AndOr(shallow, VIR_DOMAIN_BLOCK_REBASE_SHALLOW),
                      AndOr(reuse_ext, VIR_DOMAIN_BLOCK_REBASE_REUSE_EXT)),
                AndOr(copy, VIR_DOMAIN_BLOCK_REBASE_COPY)),
          AndOr(relative, VIR_DOMAIN_BLOCK_REBASE_RELATIVE))

rebase_run(disk, base, f, out) ==
    SingleCall("rebase", [disk |-> disk, base |-> base, f |-> f, out |-> out],
               "blockRebase",
               [disk |-> disk, base |-> base, bandwidth |-> REBASE_DEFAULT_BANDWIDTH,
                flags |-> RebaseFlags(f.shallow, f.reuse_ext, f.copy, f.relative)],
               out, "blockRebase")

rebase ==
    /\ Ready
    /\ \E disk \in Disks, base \in Bases, out \in Outcomes,
          f \in [shallow : BOOLEAN, reuse_ext : BOOLEAN, copy : BOOLEAN,
                 relative : BOOLEAN] :
        last' = rebase_run(disk, base, f, out)
    /\ UNCHANGED <<defined>>
    /\ UNCHANGED initVars

CommitFlags(relative) == AndOr(relative, VIR_DOMAIN_BLOCK_COMMIT_RELATIVE)

commit_run(disk, base, top, relative, out) ==
    SingleCall("commit",
               [disk |-> disk, base |-> base, top |-> top, relative |-> relative,
                out |-> out],
               "blockCommit",
               [disk |-> disk, base |-> base, top |-> top,
                bandwidth |-> COMMIT_DEFAULT_BANDWIDTH, flags |-> CommitFlags(relative)],
               out, "blockCommit")

commit ==
    /\ Ready
    /\ \E disk \in Disks, base \in Bases, top \in Tops, relative \in BOOLEAN,
          out \in Outcomes :
        last' = commit_run(disk, base, top, relative, out)
    /\ UNCHANGED <<defined>>
    /\ UNCHANGED initVars

resize_run(disk, size_kb, out) ==
    SingleCall("resize", [disk |-> disk, size_kb |-> size_kb, out |-> out],
               "blockResize", [disk |-> disk, size_kb |-> size_kb], out, None)

resize ==
    /\ Ready
    /\ \E disk \in Disks, size_kb \in Sizes, out \in Outcomes :
        last' = resize_run(disk, size_kb, out)
    /\ UNCHANGED <<defined>>
    /\ UNCHANGED initVars

(* BlockDevice.get_job_info *)

\* What blockJobInfo replies: the integer -1, a dict with no keys, or a dict
\* describing a running job.
JobTypes == 1..4
EmptyDict == <<>>
JobDicts ==
    {d \in [type : JobTypes, bandwidth : {0, 1}, cur : 0..MaxProgress,
            end : 0..MaxProgress] : d.cur <= d.end}
Sentinel == [isint |-> TRUE, int |-> -1, dict |-> EmptyDict]
DictReply(d) == [isint |-> FALSE, int |-> 0, dict |-> d]
JobReplies == {Sentinel} \cup {DictReply(d) : d \in JobDicts \cup {EmptyDict}}

\* dict.get(key, default)
Get(d, key, default) == IF key \in DOMAIN d THEN d[key] ELSE default

\* A variant of the sentinel test that compares with 1.
NotMinusOne_SignSlip(status) == ~(status.isint /\ status.int = 1)

\* status != -1
NotMinusOne(status) == ~(status.isint /\ status.int = -1)

BlockDeviceJobInfo(job, bandwidth, cur, end) ==
    [job |-> job, bandwidth |-> bandwidth, cur |-> cur, end |-> end]

\* The value get_job_info returns for a reply of blockJobInfo.
get_job_info_value(status) ==
    IF NotMinusOne(status)
        THEN [none |-> FALSE,
              info |-> BlockDeviceJobInfo(Get(status.dict, "type", 0),
                                          Get(status.dict, "bandwidth", 0),
                                          Get(status.dict, "cur", 0),
                                          Get(status.dict, "end", 0))]
        ELSE [none |-> TRUE, info |-> BlockDeviceJobInfo(0, 0, 0, 0)]

get_job_info_run(disk, out, status) ==
    SingleCall("get_job_info", [disk |-> disk, out |-> out, status |-> status],
               "blockJobInfo", [disk |-> disk, flags |-> 0], out,
               get_job_info_value(status))

get_job_info ==
    /\ Ready
    /\ \E disk \in Disks, out \in {OK, LibvirtError} :
        \E status \in (IF out = OK THEN JobReplies ELSE {Sentinel}) :
            last' = get_job_info_run(disk, out, status)
    /\ UNCHANGED <<defined>>
    /\ UNCHANGED initVars

---------------------------------------------------------------------------
(* Guest.__init__ run by several threads: the lazy import of libvirt *)

Threads == 1..NThreads

\* `if libvirt is None:` reads the global and branches.
InitCheck(t) ==
    /\ tpc[t] = "start"
    /\ tpc' = [tpc EXCEPT ![t] = IF libvirt = None THEN "import" ELSE "store"]
    /\ UNCHANGED <<libvirt, assigns, tmp, sawNone>>
    /\ UNCHANGED guestVars

\* importutils.import_module('libvirt') returns the module.
InitImport(t) ==
    /\ tpc[t] = "import"
    /\ tmp' = [tmp EXCEPT ![t] = Module]
    /\ tpc' = [tpc EXCEPT ![t] = "assign"]
    /\ UNCHANGED <<libvirt, assigns, sawNone>>
    /\ UNCHANGED guestVars

\* `libvirt = ...` stores the global.
InitAssign(t) ==
    /\ tpc[t] = "assign"
    /\ libvirt' = tmp[t]
    /\ assigns' = assigns + 1
    /\ tpc' = [tpc EXCEPT ![t] = "store"]
    /\ UNCHANGED <<tmp, sawNone>>
    /\ UNCHANGED guestVars

\* `self._domain = domain`: the Guest exists.
InitStore(t) ==
    /\ tpc[t] = "store"
    /\ tpc' = [tpc EXCEPT ![t] = "done"]
    /\ UNCHANGED <<libvirt, assigns, tmp, sawNone>>
    /\ UNCHANGED guestVars

\* A method of the constructed Guest reads a flag constant from the global.
ReadFlag(t) ==
    /\ tpc[t] = "done"
    /\ sawNone' = [sawNone EXCEPT ![t] = (libvirt = None)]
    /\ tpc' = [tpc EXCEPT ![t] = "used"]
    /\ UNCHANGED <<libvirt, assigns, tmp>>
    /\ UNCHANGED guestVars

InitConstruct ==
    /\ last = Idle
    /\ defined = TRUE
    /\ libvirt = None
    /\ assigns = 0
    /\ tpc = [t \in Threads |-> "start"]
    /\ tmp = [t \in Threads |-> None]
    /\ sawNone = [t \in Threads |-> FALSE]

NextConstruct ==
    \E t \in Threads :
        \/ InitCheck(t)
        \/ InitImport(t)
        \/ InitAssign(t)
        \/ InitStore(t)
        \/ ReadFlag(t)

SpecConstruct == InitConstruct /\ [][NextConstruct]_vars

---------------------------------------------------------------------------
Init ==
    /\ last = Idle
    /\ defined = TRUE
    /\ libvirt = Module
    /\ assigns = 1
    /\ tpc = [t \in 1..NThreads |-> "done"]
    /\ tmp = [t \in 1..NThreads |-> None]
    /\ sawNone = [t \in 1..NThreads |-> FALSE]

\* The caller has taken the result of the operation.
caller_continues ==
    /\ ~Ready
    /\ last' = Idle
    /\ UNCHANGED <<defined>>
    /\ UNCHANGED initVars

Next ==
    \/ caller_continues
    \/ delete_configuration
    \/ get_interfaces
    \/ create
    \/ launch
    \/ poweroff
    \/ resume
    \/ save_memory_state
    \/ enable_hairpin
    \/ attach_device
    \/ detach_device
    \/ abort_job
    \/ get_job_info
    \/ rebase
    \/ commit
    \/ resize

Spec == Init /\ [][Next]_vars

---------------------------------------------------------------------------
(* Properties *)

IsOp(name) == last.op = name
CallNames == [i \in 1..Len(last.calls) |-> last.calls[i].m]
Called(m) == \E i \in 1..Len(last.calls) : last.calls[i].m = m
Raised == last.result.kind = "raise"
Returned == last.result.kind = "return"

\* C1: when undefineFlags is supported and succeeds, delete_configuration makes
\* exactly one call on the domain handle, undefineFlags with the
\* managed-save-removal flag; undefine, hasManagedSaveImage and
\* managedSaveRemove are not called, and the operation returns without error.
C1_SuccessIsOneCall ==
    (IsOp("delete_configuration") /\ last.args.uf = OK) =>
        /\ Len(last.calls) = 1
        /\ last.calls[1].m = "undefineFlags"
        /\ last.calls[1].args.flags = 1
        /\ ~Called("undefine")
        /\ ~Called("hasManagedSaveImage")
        /\ ~Called("managedSaveRemove")
        /\ ~Called("ID")
        /\ Returned
        /\ last.logs = <<>>

C1_Witness ==
    /\ IsOp("delete_configuration")
    /\ last.args.uf = OK
    /\ Len(last.calls) = 1
    /\ ~defined

C3_OnlyFinalUndefineFails ==
    IsOp("delete_configuration") =>
        /\ \/ Returned /\ ~defined
           \/ Raised /\ last.result.err = Err(LibvirtError, "undefine")
        /\ (last.args.uf = LibvirtError) => Called("undefine")

\* C3, amended: delete_configuration ends either with the domain undefined or
\* with an error raised by the final plain undefine call, by the ID query made
\* for the fallback's log line, or, as a domain-level error, by
\* hasManagedSaveImage or managedSaveRemove.  No error of undefineFlags and no
\* capability absence of hasManagedSaveImage or managedSaveRemove reaches the
\* caller, and a domain-level error of undefineFlags is followed by plain
\* undefine once the ID query has returned.
C3_ErrorsThatReachTheCaller ==
    IsOp("delete_configuration") =>
        LET d == last.args
            e == last.result.err
        IN  /\ \/ Returned /\ ~defined
               \/ Raised /\ e.from = "undefine" /\ e.type = d.ud /\ defined
               \/ Raised /\ e.from = "ID" /\ e.type = d.id /\ defined
                    /\ d.uf = LibvirtError
               \/ Raised /\ e.from \in {"hasManagedSaveImage", "managedSaveRemove"}
                    /\ e.type = LibvirtError /\ defined /\ d.uf = AttributeError
            /\ Raised => e.from # "undefineFlags"
            /\ (d.uf = LibvirtError /\ d.id = OK) =>
                  /\ CallNames = <<"undefineFlags", "ID", "undefine">>
                  /\ Len(last.logs) = 1
                  /\ (d.ud = OK) => (Returned /\ ~defined)
            /\ (d.uf = LibvirtError /\ d.id # OK) =>
                  CallNames = <<"undefineFlags", "ID">>

C3_Witness ==
    /\ IsOp("delete_configuration")
    /\ last.args.uf = LibvirtError
    /\ last.args.id = OK
    /\ last.args.ud = OK
    /\ CallNames = <<"undefineFlags", "ID", "undefine">>
    /\ Returned
    /\ ~defined

\* C4: when the driver call inside create, launch or enable_hairpin fails with
\* error E, the operation logs the diagnostic payload and raises exactly E,
\* also when re-querying the XML for the log fails; create returns no Guest
\* when defining the domain failed.
C4_RaisesTheDriversError ==
    /\ (IsOp("create") /\ last.ext[1].out # OK) =>
          /\ last.result = Raise(Err(last.ext[1].out, "write_instance_config"))
          /\ Len(last.logs) = 1
          /\ last.logs[1].payload = last.args.xml
    /\ (IsOp("create") /\ Returned) => last.ext[1].out = OK
    /\ (IsOp("launch") /\ last.args.out # OK) =>
          last.result = Raise(Err(last.args.out, "createWithFlags"))
    /\ (IsOp("enable_hairpin") /\ FirstFailure(last.args.exits) # 0) =>
          last.result = Raise(Err("ProcessExecutionError", "execute"))

\* C5 as stated: every mutating operation other than delete_configuration
\* issues exactly one call on the domain handle per invocation, on success and
\* on failure alike, and none after a failure.
MutatingCall ==
    [launch |-> "createWithFlags", poweroff |-> "destroy", resume |-> "resume",
     attach_device |-> "attachDeviceFlags", detach_device |-> "detachDeviceFlags",
     save_memory_state |-> "managedSave", abort_job |-> "blockJobAbort",
     rebase |-> "blockRebase", commit |-> "blockCommit", resize |-> "blockResize"]

IsMutatingOp == last.op \in DOMAIN MutatingCall

C5_ExactlyOneCall ==
    IsMutatingOp =>
        /\ Len(last.calls) = 1
        /\ last.calls[1].m = MutatingCall[last.op]

\* C5, amended: each of these operations issues its mutating call exactly
\* once and never again, raising the call's own failure class to the caller;
\* it is the only call on the domain handle, except that launch, after a
\* failed createWithFlags, makes one XMLDesc(0) query for its error log.
C5_OneMutatingCallNoRetry ==
    IsMutatingOp =>
        /\ Len(last.calls) >= 1
        /\ last.calls[1].m = MutatingCall[last.op]
        /\ Cardinality({i \in 1..Len(last.calls) :
                            last.calls[i].m = MutatingCall[last.op]}) = 1
        /\ (last.calls[1].out = OK) => (Returned /\ Len(last.calls) = 1)
        /\ (last.calls[1].out # OK) => Raised
        /\ IF IsOp("launch") /\ last.calls[1].out # OK
              THEN CallNames = <<"createWithFlags", "XMLDesc">>
              ELSE /\ Len(last.calls) = 1
                   /\ Raised =>
                        last.result.err = Err(last.calls[1].out, MutatingCall[last.op])

C5_Witness ==
    /\ IsOp("launch")
    /\ last.args.out = LibvirtError
    /\ CallNames = <<"createWithFlags", "XMLDesc">>
    /\ Raised

\* C6 as stated: get_job_info returns None when blockJobInfo reports the
\* no-job sentinel and otherwise a record with 0 <= cur <= end that denotes a
\* job that exists (pull, copy, commit or active commit); no reply is turned
\* into a zero-valued record.
ZeroInfo == BlockDeviceJobInfo(0, 0, 0, 0)

C6_RecordMeansJob ==
    (IsOp("get_job_info") /\ Returned) =>
        LET v == last.result.value
        IN  /\ v.none <=> (last.args.status = Sentinel)
            /\ ~v.none =>
                  /\ 0 <= v.info.cur
                  /\ v.info.cur <= v.info.end
                  /\ v.info.job \in JobTypes
                  /\ v.info # ZeroInfo

\* C6, amended: get_job_info returns None exactly when blockJobInfo replies
\* -1; for a reply describing a job it returns a record with that job's type,
\* bandwidth, cur and end, so 0 <= cur <= end and the type is one of the four
\* job types; for a reply without keys it returns the record with job 0 and
\* cur = end = 0, not None.
C6_SentinelOnlyIsNone ==
    (IsOp("get_job_info") /\ Returned) =>
        LET v == last.result.value
            st == last.args.status
        IN  /\ v.none <=> (st = Sentinel)
            /\ (~st.isint /\ st.dict # EmptyDict) =>
                  /\ v.info.job = st.dict.type
                  /\ v.info.bandwidth = st.dict.bandwidth
                  /\ v.info.cur = st.dict.cur
                  /\ v.info.end = st.dict.end
                  /\ 0 <= v.info.cur
                  /\ v.info.cur <= v.info.end
                  /\ v.info.job \in JobTypes
            /\ (~st.isint /\ st.dict = EmptyDict) => (~v.none /\ v.info = ZeroInfo)

C6_Witness ==
    /\ IsOp("get_job_info")
    /\ Returned
    /\ last.args.status = DictReply(EmptyDict)
    /\ ~last.result.value.none
    /\ last.result.value.info.job = 0

\* C7: for all four combinations of (persistent, live), attach_device and
\* detach_device pass flags equal to the bitwise OR of AFFECT_CONFIG (present
\* iff persistent) and AFFECT_LIVE (present iff live), zero when both are
\* false, the same for both operations and in either order of folding, with
\* the device's serialized configuration in the same single call.
C7_FlagComposition ==
    (IsOp("attach_device") \/ IsOp("detach_device")) =>
        LET p == last.args.persistent
            l == last.args.live
            f == last.calls[1].args.flags
            cfg == IF p THEN 2 ELSE 0
            liv == IF l THEN 1 ELSE 0
        IN  /\ Len(last.calls) = 1
            /\ last.calls[1].m =
                  IF IsOp("attach_device") THEN "attachDeviceFlags"
                                           ELSE "detachDeviceFlags"
            /\ f = BitOr(cfg, liv)
            /\ f = BitOr(liv, cfg)
            /\ f = cfg + liv
            /\ HasBit(f, 2) <=> p
            /\ HasBit(f, 1) <=> l
            /\ (~p /\ ~l) => f = 0
            /\ AttachFlags(p, l) = DetachFlags(p, l)
            /\ last.calls[1].args.xml = to_xml(last.args.conf)

C7_Witness ==
    /\ IsOp("detach_device")
    /\ last.args.persistent
    /\ ~last.args.live
    /\ last.calls[1].args.flags = 2
    /\ last.calls[1].args.xml.devices[1].targets[1].dev = "vdb"

\* C8: get_interfaces never raises; for an XML description with N interface
\* target elements it returns exactly N names, the dev attribute of each
\* target, in document order; when the XML cannot be retrieved or parsed it
\* returns an empty sequence.
TargetPositions(devs) ==
    {i \in 1..Len(devs) : devs[i].tag = "interface" /\ devs[i].targets # <<>>}

C8_InterfacesInOrder ==
    IsOp("get_interfaces") =>
        LET xo == last.args.xo
            devs == xo.text.devices
            pos == TargetPositions(devs)
            v == last.result.value
        IN  /\ Returned
            /\ (xo.out = OK /\ xo.text.wellformed) =>
                  /\ Len(v) = Cardinality(pos)
                  /\ \A i \in pos :
                        v[Cardinality({j \in pos : j <= i})] = devs[i].targets[1].dev
            /\ (xo.out # OK \/ ~xo.text.wellformed) => v = <<>>

C8_Witness ==
    /\ IsOp("get_interfaces")
    /\ Returned
    /\ last.result.value = <<"vnet1", "vnet0">>

\* C9: the global libvirt is assigned at most once over any interleaving of
\* Guest constructions, is never reassigned once it is not None, and is not
\* None when a method of a constructed Guest reads a flag constant from it.
C9_AssignedOnce ==
    /\ assigns <= 1
    /\ (assigns >= 1) => libvirt # None
    /\ \A t \in Threads : ~sawNone[t]

\* C10: enable_hairpin issues, for every interface get_interfaces returns and
\* in that order, one privileged write of '1' to the interface's hairpin_mode
\* file, accepting exit codes 0 and 1; with no interface it issues no write
\* and succeeds; when a write fails the guest's XML is logged, the failure is
\* re-raised and no write follows the failing one.
C10_HairpinWrites ==
    IsOp("enable_hairpin") =>
        LET ifs == get_interfaces_value(last.args.xo)
            k == FirstFailure(last.args.exits)
        IN  /\ Len(last.ext) <= Len(ifs)
            /\ \A i \in 1..Len(last.ext) :
                  /\ last.ext[i].m = "execute"
                  /\ last.ext[i].args.path = HairpinPath(ifs[i])
                  /\ last.ext[i].args.process_input = "1"
                  /\ (i < Len(last.ext)) => last.ext[i].out \in {0, 1}
            /\ (ifs = <<>>) => (last.ext = <<>> /\ Returned)
            /\ (k = 0) => (Len(last.ext) = Len(ifs) /\ Returned)
            /\ (k # 0) =>
                  /\ Len(last.ext) = k
                  /\ last.result = Raise(Err("ProcessExecutionError", "execute"))
                  /\ Len(last.logs) = 1
                  /\ last.logs[1].payload = last.args.xo.text

====
